---- MODULE Spec2Model ----
(***************************************************************************)
(* Model of papercoder.py: a text is cut into 2-character tokens, every    *)
(* token is paired with password-derived anchor tokens into a chunk, the   *)
(* chunks are placed into a grid of slots, the free slots are filled with  *)
(* noise, and decode recovers the text from the grid and the password.     *)
(*                                                                         *)
(* A character is a 1-character string, a Python string is a sequence of   *)
(* characters, a token is a string, a row is a sequence of tokens.         *)
(* Python positions are 0-based; Slot turns one into a TLA+ index.         *)
(***************************************************************************)
EXTENDS Integers, Sequences, FiniteSets, TLC

VARIABLES pc, text, password, line_max_tokens, total_max_tokens,
          lines_args, needs_padding, message_tokens, password_tokens,
          encoded_chunks, lines, chosen, pad_slot, error, decoded

vars == <<pc, text, password, line_max_tokens, total_max_tokens,
          lines_args, needs_padding, message_tokens, password_tokens,
          encoded_chunks, lines, chosen, pad_slot, error, decoded>>

(***************************************************************************)
(* Bounds of the model.                                                    *)
(***************************************************************************)
\* characters that passwords draw from
NumPwdChars == 3
\* characters that texts draw from
NumChars == 2
\* longest password of the encoder runs
MaxPwdLen == 3
\* longest password of the anchor-extraction runs
MaxAnchorPwdLen == 4
\* longest text
MaxTextLen == 3
\* widest row
MaxLineTokens == 3
\* largest total capacity, and the most it falls short of the slots needed
MaxTotalTokens == 6
MaxShort == 3
\* the runs that leave a slot to the noise: most such slots, longest text,
\* characters of the text, longest password, characters of the password
MaxSpare == 1
MaxNoiseTextLen == 2
NumNoiseChars == 1
MaxNoisePwdLen == 2
NumNoisePwdChars == 2
\* decoder runs: most row strings, and longest row string
MaxRows == 2
MaxRowChars == 3
\* placer runs: most chunks, widest row, largest total capacity
MaxChunks == 3
MaxPlaceLineTokens == 4
MaxPlaceTotalTokens == 9

\* string.ascii_letters + string.digits
Alphabet ==
    <<"a", "b", "c", "d", "e", "f", "g", "h", "i", "j", "k", "l", "m",
      "n", "o", "p", "q", "r", "s", "t", "u", "v", "w", "x", "y", "z",
      "A", "B", "C", "D", "E", "F", "G", "H", "I", "J", "K", "L", "M",
      "N", "O", "P", "Q", "R", "S", "T", "U", "V", "W", "X", "Y", "Z",
      "0", "1", "2", "3", "4", "5", "6", "7", "8", "9">>
Chars == {Alphabet[i] : i \in 1..NumChars}
PwdChars == {Alphabet[i] : i \in 1..NumPwdChars}

\* all strings over cs of length 0..n
StringsUpTo(cs, n) == UNION {[1..k -> cs] : k \in 0..n}

\* the password of the specification's worked example
Hello == <<"h", "e", "l", "l", "o">>

(***************************************************************************)
(* Python helpers.                                                         *)
(***************************************************************************)
Min(a, b) == IF a <= b THEN a ELSE b
Max(a, b) == IF a >= b THEN a ELSE b

\* None, the value of an empty slot (no string equals it)
None == <<"None">>

\* s[::-1]
Reverse(s) == [i \in 1..Len(s) |-> s[Len(s) + 1 - i]]

\* x in seq
InSeq(x, seq) == \E i \in DOMAIN seq : seq[i] = x

\* seq.index(x), 0-based, for x in seq
IndexOf(seq, x) == (CHOOSE i \in DOMAIN seq : seq[i] = x /\ \A j \in 1..(i - 1) : seq[j] # x) - 1

\* Counter(seq)[x]
Count(seq, x) == Cardinality({i \in DOMAIN seq : seq[i] = x})

\* s[i:i+2] for 0 <= i
Slice2(s, i) == SubSeq(s, i + 1, Min(i + 2, Len(s)))

\* ''.join(tokens)
RECURSIVE Join(_)
Join(tokens) == IF tokens = <<>> THEN <<>> ELSE Head(tokens) \o Join(Tail(tokens))

\* [tok for line in lines for tok in line]
RECURSIVE Flatten(_)
Flatten(ls) == IF ls = <<>> THEN <<>> ELSE Head(ls) \o Flatten(Tail(ls))

(***************************************************************************)
(* Utility functions.                                                      *)
(***************************************************************************)
\* the random source's alphabet, string.ascii_letters + string.digits
charset == {Alphabet[i] : i \in DOMAIN Alphabet}

\* [text[i:i+2] for i in range(0, len(text), 2)]
get_text_tokens(t) == [k \in 1..((Len(t) + 1) \div 2) |-> Slice2(t, 2 * (k - 1))]

\* [password[i:i+2] for i in range(len(password) - 1)]
raw_chunks(p) == [i \in 1..Max(Len(p) - 1, 0) |-> Slice2(p, i - 1)]

\* the mutant of get_password_tokens that keeps a window whose reversal occurs
get_password_tokens_keep_reversed(p) ==
    LET rc == raw_chunks(p)
        Keep(c) == ~(Count(rc, c) > 1) /\ ~(c[1] = c[2])
    IN  SelectSeq(rc, Keep)

get_password_tokens(p) ==
    LET rc == raw_chunks(p)
        Keep(c) == /\ ~(Count(rc, c) > 1)
                   /\ ~(c[1] = c[2])
                   /\ ~InSeq(Reverse(c), rc)
    IN  SelectSeq(rc, Keep)

\* 'before' for an even index in the anchor list, 'after' for an odd one
get_direction(p, token) ==
    IF IndexOf(get_password_tokens(p), token) % 2 = 0 THEN "before" ELSE "after"

\* the mutant of direction_candidates that ignores the direction
direction_candidates_any(p, direction) ==
    LET chunks == get_password_tokens(p)
    IN  {chunks[i] : i \in DOMAIN chunks}

\* the candidates of get_random_chunk_for_direction; an empty set raises ValueError
direction_candidates(p, direction) ==
    LET chunks == get_password_tokens(p)
    IN  IF direction = "before"
        THEN {chunks[i] : i \in {j \in DOMAIN chunks : (j - 1) % 2 = 0}}
        ELSE {chunks[i] : i \in {j \in DOMAIN chunks : (j - 1) % 2 # 0}}

(***************************************************************************)
(* Step 3 of encode: the chunk of one message token.                       *)
(* An outcome is [err, chunk]; err is "none" or the exception raised.      *)
(***************************************************************************)
Raised(e) == [err |-> e, chunk |-> <<>>]
Built(c) == [err |-> "none", chunk |-> c]

\* branch 1, the message token is itself an anchor
chunk_for_anchor(p, m) ==
    IF get_direction(p, m) = "before"
    THEN IF direction_candidates(p, "before") = {}
         THEN {Raised("ValueError")}
         ELSE {Built(<<Reverse(m), m, b>>) : b \in direction_candidates(p, "before")}
    ELSE IF direction_candidates(p, "after") = {}
         THEN {Raised("ValueError")}
         ELSE {Built(<<a, m, Reverse(m)>>) : a \in direction_candidates(p, "after")}

\* the mutant of branch 2 that never takes the collision path
chunk_for_reversed_no_collision(p, m) ==
    IF direction_candidates(p, "after") = {}
    THEN {Raised("ValueError")}
    ELSE {Built(<<a, m>>) : a \in direction_candidates(p, "after")}

\* branch 2, the reversed message token is an anchor
chunk_for_reversed(p, m) ==
    IF direction_candidates(p, "after") = {}
    THEN {Raised("ValueError")}
    ELSE UNION { IF p_token # Reverse(m)
                 THEN {Built(<<p_token, m>>)}
                 ELSE IF direction_candidates(p, "before") = {}
                      THEN {Raised("ValueError")}
                      ELSE {Built(<<m, b>>) : b \in direction_candidates(p, "before")}
                 : p_token \in direction_candidates(p, "after") }

\* branch 3, a plain token; random.choice of an empty list raises IndexError
chunk_for_plain(p, ptoks, m) ==
    IF ptoks = <<>>
    THEN {Raised("IndexError")}
    ELSE { IF get_direction(p, ptoks[i]) = "before"
           THEN Built(<<m, ptoks[i]>>)
           ELSE Built(<<ptoks[i], m>>)
           : i \in DOMAIN ptoks }

\* the body of the loop over message_tokens
encode_chunk(p, ptoks, m) ==
    IF InSeq(m, ptoks) THEN chunk_for_anchor(p, m)
    ELSE IF InSeq(Reverse(m), ptoks) THEN chunk_for_reversed(p, m)
    ELSE chunk_for_plain(p, ptoks, m)

(***************************************************************************)
(* Step 4 of encode: the lines buffer.                                     *)
(***************************************************************************)
max_lines(w, c) == (c \div w) + (IF c % w # 0 THEN 1 ELSE 0)

allocate(w, c) ==
    [r \in 1..max_lines(w, c) |->
        LET tmax_toks == c - (r - 1) * w
        IN  IF tmax_toks > w THEN [j \in 1..w |-> None]
                             ELSE [j \in 1..tmax_toks |-> None]]

(***************************************************************************)
(* Chunk placement.  A position is a 0-based index of the flattened grid.  *)
(***************************************************************************)
max_attempts == 100

\* a line of the grid addressed from the flat position: line_len slots a row
Slot(pos) == pos + 1

\* the mutant of probe that lets a chunk run over the end of its row
probe_no_row_check(flat, pos, length, line_len) ==
    LET bad == {k \in 0..(length - 1) :
                   IF pos + k >= Len(flat) THEN TRUE ELSE flat[Slot(pos + k)] # None}
        k0 == CHOOSE k \in bad : \A j \in bad : k <= j
    IN  IF bad = {} THEN "yes"
        ELSE IF pos + k0 >= Len(flat) THEN "IndexError" ELSE "no"

\* col_idx + length <= line_len and all(flat[pos + k] is None for k in range(length)):
\* "yes", "no", or "IndexError" when the scan leaves the flat list before
\* it meets an occupied slot
probe(flat, pos, length, line_len) ==
    IF (pos % line_len) + length > line_len THEN "no"
    ELSE LET bad == {k \in 0..(length - 1) :
                        IF pos + k >= Len(flat) THEN TRUE ELSE flat[Slot(pos + k)] # None}
             k0 == CHOOSE k \in bad : \A j \in bad : k <= j
         IN  IF bad = {} THEN "yes"
             ELSE IF pos + k0 >= Len(flat) THEN "IndexError" ELSE "no"

\* flat[pos + k] = chunk[k] for k in range(len(chunk))
put(flat, pos, chunk) ==
    [s \in 1..Len(flat) |->
        IF s - 1 >= pos /\ s - 1 < pos + Len(chunk) THEN chunk[s - pos] ELSE flat[s]]

\* the copy of flat back into lines, line[j] = flat[idx] row by row; the
\* first line shorter than lines[0] raises IndexError at its missing slot,
\* with the lines before it and its own slots already written
write_back(ls, flat, placed) ==
    LET line_len == Len(ls[1])
        short == {r \in DOMAIN ls : Len(ls[r]) < line_len}
        r0 == IF short = {} THEN Len(ls) + 1
              ELSE CHOOSE r \in short : \A q \in short : r <= q
    IN  [err |-> IF short = {} THEN "none" ELSE "IndexError",
         lines |-> [r \in DOMAIN ls |->
                       [j \in 1..Len(ls[r]) |->
                           IF r <= r0 /\ j <= line_len THEN flat[(r - 1) * line_len + j]
                                                       ELSE ls[r][j]]],
         chosen |-> placed]

(***************************************************************************)
(* try_spread: chunk i (0-based) and the ones after it, on flat, with      *)
(* prev_end the last slot of the previous chunk and placed the start       *)
(* positions chosen so far.  The set of runs the shuffles can produce:     *)
(* status "ok" (True), "fail" (False) or "IndexError".                     *)
(***************************************************************************)
Run(st, flat, placed) == [status |-> st, flat |-> flat, chosen |-> placed]

RECURSIVE try_spread(_, _, _, _, _, _, _)
try_spread(flat, chunks, i, prev_end, placed, line_len, total_slots) ==
    IF i = Len(chunks) THEN {Run("ok", flat, placed)}
    ELSE
    LET n_chunks == Len(chunks)
        chunk == chunks[i + 1]
        length == Len(chunk)
        start_bin == (i * total_slots) \div n_chunks
        end_bin == ((i + 1) * total_slots) \div n_chunks
        in_bin == Max(prev_end + 1, start_bin)..(end_bin - length)
        anywhere == (prev_end + 1)..(total_slots - length)
        Fits(ps) == {pos \in ps : probe(flat, pos, length, line_len) = "yes"}
        Breaks(ps) == \E pos \in ps : probe(flat, pos, length, line_len) = "IndexError"
        Next_(c) == try_spread(put(flat, c, chunk), chunks, i + 1, c + length - 1,
                               Append(placed, c), line_len, total_slots)
    IN  IF Breaks(in_bin) THEN {Run("IndexError", flat, placed)}
        ELSE IF Fits(in_bin) # {} THEN UNION {Next_(c) : c \in Fits(in_bin)}
        ELSE IF Breaks(anywhere) THEN {Run("IndexError", flat, placed)}
        ELSE IF Fits(anywhere) # {} THEN UNION {Next_(c) : c \in Fits(anywhere)}
        ELSE {Run("fail", flat, placed)}

(***************************************************************************)
(* tightly_fit_chunks: chunk i (0-based) and the ones after it, the scan   *)
(* cursor at pos.  One run: "ok", "RuntimeError" or "IndexError".          *)
(***************************************************************************)
RECURSIVE tight_fit(_, _, _, _, _, _, _)
tight_fit(flat, chunks, i, pos, placed, line_len, total_slots) ==
    IF i = Len(chunks) THEN Run("ok", flat, placed)
    ELSE
    LET chunk == chunks[i + 1]
        chunk_len == Len(chunk)
        \* the positions at which the while loop stops advancing pos
        stops == {q \in pos..(total_slots - chunk_len) :
                     probe(flat, q, chunk_len, line_len) # "no"}
        q0 == CHOOSE q \in stops : \A r \in stops : q <= r
    IN  IF stops = {} THEN Run("RuntimeError", flat, placed)
        ELSE IF probe(flat, q0, chunk_len, line_len) = "IndexError"
             THEN Run("IndexError", flat, placed)
        ELSE tight_fit(put(flat, q0, chunk), chunks, i + 1, q0 + chunk_len,
                       Append(placed, q0), line_len, total_slots)

\* tightly_fit_chunks(lines, encoded_chunks): [err, lines, chosen]
tightly_fit_chunks(ls, chunks) ==
    IF ls = <<>> THEN [err |-> "IndexError", lines |-> ls, chosen |-> <<>>]
    ELSE
    LET line_len == Len(ls[1])
        total_slots == Len(ls) * line_len
        run == tight_fit(Flatten(ls), chunks, 0, 0, <<>>, line_len, total_slots)
    IN  IF run.status = "ok" THEN write_back(ls, run.flat, run.chosen)
        ELSE [err |-> run.status, lines |-> ls, chosen |-> run.chosen]

(***************************************************************************)
(* spread_chunks_with_fallback(lines, encoded_chunks): the set of results  *)
(* [err, lines, chosen] that the max_attempts attempts and the fallback    *)
(* can end in.  The fallback runs when every attempt returned False, which *)
(* the shuffles allow exactly when one attempt can.                        *)
(***************************************************************************)
spread_chunks_with_fallback(ls, chunks) ==
    IF ls = <<>> THEN {[err |-> "IndexError", lines |-> ls, chosen |-> <<>>]}
    ELSE
    LET line_len == Len(ls[1])
        total_slots == Len(ls) * line_len
        runs == IF max_attempts > 0
                THEN try_spread(Flatten(ls), chunks, 0, -1, <<>>, line_len, total_slots)
                ELSE {Run("fail", Flatten(ls), <<>>)}
    IN  {write_back(ls, r.flat, r.chosen) : r \in {x \in runs : x.status = "ok"}}
        \cup {[err |-> "IndexError", lines |-> ls, chosen |-> r.chosen] :
                 r \in {x \in runs : x.status = "IndexError"}}
        \cup (IF \E r \in runs : r.status = "fail"
              THEN {tightly_fit_chunks(ls, chunks)} ELSE {})

(***************************************************************************)
(* Noise.                                                                  *)
(***************************************************************************)
\* the mutant of generate_noise_token that accepts the reversal of an anchor
generate_noise_token_no_reverse(exclude_set, text_tokens) ==
    {token \in [1..2 -> charset] :
        /\ ~InSeq(token, exclude_set)
        /\ ~InSeq(token, text_tokens)}

\* the tokens the rejection loop of generate_noise_token can return
generate_noise_token(exclude_set, text_tokens) ==
    {token \in [1..2 -> charset] :
        /\ ~InSeq(token, exclude_set)
        /\ ~InSeq(Reverse(token), exclude_set)
        /\ ~InSeq(token, text_tokens)}

\* the slots <<row, column>> (1-based) still None
empty_slots(ls) == {rc \in UNION {{<<r, j>> : j \in DOMAIN ls[r]} : r \in DOMAIN ls} :
                       ls[rc[1]][rc[2]] = None}

(***************************************************************************)
(* decode.                                                                 *)
(***************************************************************************)
\* the marker of a subscript out of range
OutOfRange == <<"IndexError">>

\* line[k] for a 0-based k that may be negative
item(line, k) ==
    IF k >= 0 /\ k < Len(line) THEN line[k + 1]
    ELSE IF k < 0 /\ -k <= Len(line) THEN line[Len(line) + k + 1]
    ELSE OutOfRange

\* the mutant of next_chunk that reads line[i + 1] unguarded
next_chunk_unguarded(line, i) == item(line, i + 1)

\* line[i - 1] if i > 0 else ""
prev_chunk(line, i) == IF i > 0 THEN item(line, i - 1) ELSE <<>>

\* line[i + 1] if i + 1 < len(line) else ""
next_chunk(line, i) == IF i + 1 < Len(line) THEN item(line, i + 1) ELSE <<>>

\* the body of the inner loop of decode at slot i (0-based) of line:
\* "none" (not an anchor), "trim" (delete_last = True), "skip" (the
\* neighbour is the reversed anchor), "emit" (result.append(tok)), or
\* "IndexError"
scan_slot(line, i, valid_chunks) ==
    LET token == line[i + 1]
        direction == IF IndexOf(valid_chunks, token) % 2 = 0 THEN "before" ELSE "after"
        candidate == IF direction = "before" THEN prev_chunk(line, i) ELSE next_chunk(line, i)
    IN  IF ~InSeq(token, valid_chunks) THEN [act |-> "none", tok |-> <<>>]
        ELSE IF prev_chunk(line, i) = OutOfRange \/ next_chunk(line, i) = OutOfRange
             THEN [act |-> "IndexError", tok |-> <<>>]
        ELSE IF candidate = <<>> THEN [act |-> "trim", tok |-> <<>>]
        ELSE IF Reverse(candidate) # token THEN [act |-> "emit", tok |-> candidate]
        ELSE [act |-> "skip", tok |-> <<>>]

\* the scan of slots from..Len(line)-1 of one line: the tokens appended
RECURSIVE scan_line(_, _, _)
scan_line(line, from, valid_chunks) ==
    IF from >= Len(line) THEN <<>>
    ELSE LET s == scan_slot(line, from, valid_chunks)
         IN  (IF s.act = "emit" THEN <<s.tok>> ELSE <<>>)
             \o scan_line(line, from + 1, valid_chunks)

\* the slots <<row, column>> (1-based) of ls at which the scan does act
slots_doing(ls, valid_chunks, act) ==
    {rc \in UNION {{<<r, j>> : j \in DOMAIN ls[r]} : r \in DOMAIN ls} :
        scan_slot(ls[rc[1]], rc[2] - 1, valid_chunks).act = act}

\* decode(lines, password): [err, res]
decode(ls, p) ==
    LET valid_chunks == get_password_tokens(p)
        result == Flatten([r \in DOMAIN ls |-> scan_line(ls[r], 0, valid_chunks)])
        delete_last == slots_doing(ls, valid_chunks, "trim") # {}
        res == Join(result)
    IN  IF slots_doing(ls, valid_chunks, "IndexError") # {}
        THEN [err |-> "IndexError", res |-> <<>>]
        ELSE [err |-> "none",
              res |-> IF delete_last THEN SubSeq(res, 1, Len(res) - 1) ELSE res]

\* parse_lines_arg(lines_args): every row string resplit into 2-character tokens
parse_lines_arg(args) == [r \in DOMAIN args |-> get_text_tokens(args[r])]

(***************************************************************************)
(* The encoder run: encode(text, password, line_max_tokens,                *)
(* total_max_tokens) step by step.                                         *)
(* pc: "encode" -> "chunks" -> "pad" -> "place" -> "fill" -> "returned",   *)
(* or "raised" with the exception in error.                                *)
(* chosen (the start position of every chunk) and pad_slot (the slot of    *)
(* the padding anchor) record the values of locals of the code.            *)
(***************************************************************************)
Idle == /\ lines_args = <<>>
        /\ needs_padding = FALSE
        /\ message_tokens = <<>>
        /\ password_tokens = <<>>
        /\ encoded_chunks = <<>>
        /\ lines = <<>>
        /\ chosen = <<>>
        /\ pad_slot = <<>>
        /\ error = "none"
        /\ decoded = <<>>

\* the least number of slots that the chunks of t and the padding anchor
\* take: 3 for a token that is an anchor of p, 2 for any other
RECURSIVE min_need(_, _)
min_need(t, p) ==
    IF Len(t) = 0 THEN 0
    ELSE IF Len(t) = 1 THEN 3
    ELSE (IF InSeq(SubSeq(t, 1, 2), get_password_tokens(p)) THEN 3 ELSE 2)
         + min_need(SubSeq(t, 3, Len(t)), p)

\* the slots an input may leave to the noise
spare(t, p) ==
    IF /\ t \in StringsUpTo({Alphabet[i] : i \in 1..NumNoiseChars}, MaxNoiseTextLen)
       /\ p \in StringsUpTo({Alphabet[i] : i \in 1..NumNoisePwdChars}, MaxNoisePwdLen)
    THEN MaxSpare ELSE 0

\* the allocator gives every row the same length
even_rows(w, c) == c % w = 0 \/ c < w

\* every text, password, row width and capacity within the bounds; a grid
\* of rows of one length, the kind the placer returns, has at most
\* spare(text, password) slots more than the chunks need
Init == /\ pc = "encode"
        /\ text \in StringsUpTo(Chars, MaxTextLen)
        /\ password \in StringsUpTo(PwdChars, MaxPwdLen)
        /\ line_max_tokens \in 1..MaxLineTokens
        /\ total_max_tokens \in Max(0, min_need(text, password) - MaxShort)..MaxTotalTokens
        /\ even_rows(line_max_tokens, total_max_tokens)
              => total_max_tokens <= min_need(text, password) + spare(text, password)
        /\ Idle

Inputs == <<text, password, line_max_tokens, total_max_tokens, lines_args>>

\* steps 1 and 2: padding and tokenization
Tokenize ==
    /\ pc = "encode"
    /\ needs_padding' = (Len(text) % 2 # 0)
    /\ \E ch \in charset :
          message_tokens' = get_text_tokens(IF Len(text) % 2 # 0 THEN Append(text, ch) ELSE text)
    /\ password_tokens' = get_password_tokens(password)
    /\ pc' = "chunks"
    /\ UNCHANGED <<Inputs, encoded_chunks, lines, chosen, pad_slot, error, decoded>>

\* step 3: one iteration of the loop over message_tokens
EncodeChunk ==
    /\ pc = "chunks"
    /\ Len(encoded_chunks) < Len(message_tokens)
    /\ \E o \in encode_chunk(password, password_tokens, message_tokens[Len(encoded_chunks) + 1]) :
          IF o.err = "none"
          THEN /\ encoded_chunks' = Append(encoded_chunks, o.chunk)
               /\ UNCHANGED <<pc, error>>
          ELSE /\ pc' = "raised"
               /\ error' = o.err
               /\ UNCHANGED encoded_chunks
    /\ UNCHANGED <<Inputs, needs_padding, message_tokens, password_tokens, lines, chosen,
                   pad_slot, decoded>>

\* step 4: the lines buffer
Allocate ==
    /\ pc = "chunks"
    /\ Len(encoded_chunks) = Len(message_tokens)
    /\ lines' = allocate(line_max_tokens, total_max_tokens)
    /\ pc' = "pad"
    /\ UNCHANGED <<Inputs, needs_padding, message_tokens, password_tokens, encoded_chunks,
                   chosen, pad_slot, error, decoded>>

\* the mutant of pad_column that puts every padding anchor in the last slot
pad_column_last(direction, row) == Len(row)

\* the slot (1-based) of the padding anchor in its row: lines[line_idx][0]
\* for 'before', lines[line_idx][-1] for 'after'
pad_column(direction, row) == IF direction = "before" THEN 1 ELSE Len(row)

\* step 5: the padding anchor at the start or the end of a random line
PadMarker ==
    /\ pc = "pad"
    /\ IF ~needs_padding
       THEN /\ pc' = "place"
            /\ UNCHANGED <<lines, pad_slot, error>>
       ELSE IF password_tokens = <<>>
       THEN /\ pc' = "raised"
            /\ error' = "IndexError"
            /\ UNCHANGED <<lines, pad_slot>>
       ELSE IF lines = <<>>
       THEN /\ pc' = "raised"
            /\ error' = "ValueError"
            /\ UNCHANGED <<lines, pad_slot>>
       ELSE \E i \in DOMAIN password_tokens, line_idx \in 0..(Len(lines) - 1) :
               LET p_chunk == password_tokens[i]
                   row == lines[line_idx + 1]
                   col == pad_column(get_direction(password, p_chunk), row)
               IN  /\ lines' = [lines EXCEPT ![line_idx + 1][col] = p_chunk]
                   /\ pad_slot' = <<line_idx + 1, col>>
                   /\ pc' = "place"
                   /\ UNCHANGED error
    /\ UNCHANGED <<Inputs, needs_padding, message_tokens, password_tokens, encoded_chunks,
                   chosen, decoded>>

\* spread_chunks_with_fallback(lines, encoded_chunks), called at from
PlaceStep(from, to) ==
    /\ pc = from
    /\ \E r \in spread_chunks_with_fallback(lines, encoded_chunks) :
          IF r.err = "none"
          THEN /\ lines' = r.lines
               /\ chosen' = r.chosen
               /\ pc' = to
               /\ UNCHANGED error
          ELSE /\ lines' = r.lines
               /\ pc' = "raised"
               /\ error' = r.err
               /\ UNCHANGED chosen
    /\ UNCHANGED <<Inputs, needs_padding, message_tokens, password_tokens, encoded_chunks,
                   pad_slot, decoded>>

\* step 6: place the encoded chunks
Place == PlaceStep("place", "fill")

\* step 7: every slot still None gets a noise token, and the grid is returned
Fill ==
    /\ pc = "fill"
    /\ \E noise \in [empty_slots(lines) -> generate_noise_token(password_tokens, message_tokens)] :
          lines' = [r \in DOMAIN lines |->
                       [j \in DOMAIN lines[r] |->
                           IF lines[r][j] = None THEN noise[<<r, j>>] ELSE lines[r][j]]]
    /\ pc' = "returned"
    /\ UNCHANGED <<Inputs, needs_padding, message_tokens, password_tokens, encoded_chunks,
                   chosen, pad_slot, error, decoded>>

Next == \/ Tokenize
        \/ EncodeChunk
        \/ Allocate
        \/ PadMarker
        \/ Place
        \/ Fill

Spec == Init /\ [][Next]_vars

(***************************************************************************)
(* The chunk run: steps 1 to 3 of encode on every text and password, the   *)
(* grid left out.                                                          *)
(***************************************************************************)
InitChunks ==
    /\ pc = "encode"
    /\ text \in StringsUpTo(Chars, MaxTextLen)
    /\ password \in StringsUpTo(PwdChars, MaxPwdLen)
    /\ line_max_tokens = 1
    /\ total_max_tokens = 0
    /\ Idle

NextChunks == Tokenize \/ EncodeChunk

SpecChunks == InitChunks /\ [][NextChunks]_vars

(***************************************************************************)
(* The anchor run: get_password_tokens on every short password and on the  *)
(* password of the worked example.                                         *)
(***************************************************************************)
InitAnchors ==
    /\ pc = "anchors"
    /\ password \in StringsUpTo(PwdChars, MaxAnchorPwdLen) \cup {Hello}
    /\ text = <<>>
    /\ line_max_tokens = 1
    /\ total_max_tokens = 0
    /\ Idle

ExtractAnchors ==
    /\ pc = "anchors"
    /\ password_tokens' = get_password_tokens(password)
    /\ pc' = "anchors_done"
    /\ UNCHANGED <<Inputs, needs_padding, message_tokens, encoded_chunks, lines, chosen,
                   pad_slot, error, decoded>>

NextAnchors == ExtractAnchors

SpecAnchors == InitAnchors /\ [][NextAnchors]_vars

(***************************************************************************)
(* The decoder run, the decode branch of main: row strings as the command  *)
(* line passes them, resplit by parse_lines_arg and decoded; without row   *)
(* strings main exits with status 1.                                       *)
(* pc: "parse" -> "parsed" -> "decoded", or "parse" -> "exited".           *)
(***************************************************************************)
RowStrings == StringsUpTo(PwdChars, MaxRowChars)

InitDecode ==
    /\ pc = "parse"
    /\ lines_args \in UNION {[1..n -> RowStrings] : n \in 0..MaxRows}
    /\ password \in StringsUpTo(PwdChars, MaxPwdLen)
    /\ text = <<>>
    /\ line_max_tokens = 1
    /\ total_max_tokens = 0
    /\ needs_padding = FALSE
    /\ message_tokens = <<>>
    /\ password_tokens = <<>>
    /\ encoded_chunks = <<>>
    /\ lines = <<>>
    /\ chosen = <<>>
    /\ pad_slot = <<>>
    /\ error = "none"
    /\ decoded = <<>>

\* if not args.lines: sys.exit(1)
ExitNoLines ==
    /\ pc = "parse"
    /\ lines_args = <<>>
    /\ pc' = "exited"
    /\ error' = "SystemExit"
    /\ UNCHANGED <<Inputs, needs_padding, message_tokens, password_tokens, encoded_chunks,
                   lines, chosen, pad_slot, decoded>>

ParseLines ==
    /\ pc = "parse"
    /\ lines_args # <<>>
    /\ lines' = parse_lines_arg(lines_args)
    /\ pc' = "parsed"
    /\ UNCHANGED <<Inputs, needs_padding, message_tokens, password_tokens, encoded_chunks,
                   chosen, pad_slot, error, decoded>>

\* decoded = decode(lines, password) of the parsed rows
DecodeParsed ==
    /\ pc = "parsed"
    /\ decoded' = decode(lines, password).res
    /\ error' = decode(lines, password).err
    /\ pc' = "decoded"
    /\ UNCHANGED <<Inputs, needs_padding, message_tokens, password_tokens, encoded_chunks,
                   lines, chosen, pad_slot>>

NextDecode == ExitNoLines \/ ParseLines \/ DecodeParsed

SpecDecode == InitDecode /\ [][NextDecode]_vars

(***************************************************************************)
(* The placer run: spread_chunks_with_fallback on every grid the allocator *)
(* builds, with or without a padding anchor, and every list of up to       *)
(* MaxChunks chunks of 2 or 3 tokens.                                      *)
(***************************************************************************)
\* the padding anchor of the placer runs
PadToken == <<"z", "y">>

\* chunk i of the placer runs, of the given length
PlacerChunk(i, length) == [k \in 1..length |-> <<Alphabet[i], Alphabet[k]>>]

\* the slots a padding anchor can take in ls: first or last slot of a row
PadSlots(ls) == UNION {{<<r, 1>>, <<r, Len(ls[r])>>} : r \in DOMAIN ls}

\* the grid handed to the placer: the allocator's, with the padding anchor
\* in pad_slot when there is one
GivenGrid ==
    IF pad_slot = <<>>
    THEN allocate(line_max_tokens, total_max_tokens)
    ELSE [allocate(line_max_tokens, total_max_tokens)
             EXCEPT ![pad_slot[1]][pad_slot[2]] = PadToken]

InitPlace ==
    /\ pc = "placer"
    /\ line_max_tokens \in 1..MaxPlaceLineTokens
    /\ total_max_tokens \in 0..MaxPlaceTotalTokens
    /\ \E n \in 0..MaxChunks : \E lens \in [1..n -> 2..3] :
          encoded_chunks = [i \in 1..n |-> PlacerChunk(i, lens[i])]
    /\ pad_slot \in {<<>>} \cup PadSlots(allocate(line_max_tokens, total_max_tokens))
    /\ lines = GivenGrid
    /\ needs_padding = (pad_slot # <<>>)
    /\ text = <<>>
    /\ password = <<>>
    /\ lines_args = <<>>
    /\ message_tokens = <<>>
    /\ password_tokens = <<>>
    /\ chosen = <<>>
    /\ error = "none"
    /\ decoded = <<>>

PlaceOnly == PlaceStep("placer", "placed")

NextPlace == PlaceOnly

SpecPlace == InitPlace /\ [][NextPlace]_vars

(***************************************************************************)
(* Vocabulary of the properties.                                           *)
(***************************************************************************)
\* all slots <<row, column>> (1-based) of a grid
Slots(ls) == UNION {{<<r, j>> : j \in DOMAIN ls[r]} : r \in DOMAIN ls}

\* the 0-based position of slot <<r, j>> in the flattened grid
RECURSIVE RowsBefore(_, _)
RowsBefore(ls, r) == IF r <= 1 THEN 0 ELSE Len(ls[r - 1]) + RowsBefore(ls, r - 1)
TruePos(ls, rc) == RowsBefore(ls, rc[1]) + rc[2] - 1

RECURSIVE SumLen(_)
SumLen(chunks) == IF chunks = <<>> THEN 0 ELSE Len(Head(chunks)) + SumLen(Tail(chunks))

\* the flat positions chunk i occupies, by the start position recorded for it
ChunkRange(i) == chosen[i]..(chosen[i] + Len(encoded_chunks[i]) - 1)
ChunkPositions == UNION {ChunkRange(i) : i \in DOMAIN chosen}

\* every row as long as the first: total capacity a multiple of the row
\* width, or a single row
Rectangular(ls) == \A r \in DOMAIN ls : Len(ls[r]) = Len(ls[1])

IsAnchor(tok) == InSeq(tok, password_tokens)

\* the anchors of a grid that lack the neighbour their direction reads
BoundaryAnchors(ls) ==
    {rc \in Slots(ls) :
        /\ IsAnchor(ls[rc[1]][rc[2]])
        /\ IF get_direction(password, ls[rc[1]][rc[2]]) = "before"
           THEN rc[2] = 1 ELSE rc[2] = Len(ls[rc[1]])}

\* the same for a password p whose anchors are not in password_tokens
BoundaryAnchorsOf(ls, p) ==
    {rc \in Slots(ls) :
        /\ InSeq(ls[rc[1]][rc[2]], get_password_tokens(p))
        /\ IF get_direction(p, ls[rc[1]][rc[2]]) = "before"
           THEN rc[2] = 1 ELSE rc[2] = Len(ls[rc[1]])}

(***************************************************************************)
(* Properties of the encoder run (Spec).                                   *)
(***************************************************************************)
\* the encoder branch of message token m reads an 'after' anchor first
NeedsAfter(m) == ~IsAnchor(m) /\ IsAnchor(Reverse(m))
\* the encoder branch of message token m reads an anchor of any direction
NeedsAny(m) == ~IsAnchor(m) /\ ~IsAnchor(Reverse(m))

\* the password has an anchor of every direction the encoding needs
AnchorsSuffice ==
    /\ (needs_padding \/ \E i \in DOMAIN message_tokens : NeedsAny(message_tokens[i]))
          => Len(password_tokens) >= 1
    /\ (\E i \in DOMAIN message_tokens : NeedsAfter(message_tokens[i]))
          => Len(password_tokens) >= 2

\* rows wide enough for any chunk, and a row for every chunk and one for
\* the padding anchor
CapacityAmple ==
    /\ message_tokens # <<>> => line_max_tokens >= 3
    /\ total_max_tokens >= line_max_tokens * (Len(message_tokens) + 1)

\* C1: with enough anchors and an ample capacity, a multiple of the row
\* width or not, encode returns a grid whatever the random choices, and
\* decode of that grid with the same password returns the text.
RoundTrip ==
    (pc # "encode" /\ AnchorsSuffice /\ CapacityAmple)
        => /\ pc # "raised"
           /\ pc = "returned" => decode(lines, password) = [err |-> "none", res |-> text]

\* message token i cannot get the anchor its branch reads
LacksAnchor(i) ==
    \/ NeedsAny(message_tokens[i]) /\ Len(password_tokens) = 0
    \/ NeedsAfter(message_tokens[i]) /\ Len(password_tokens) < 2

\* C2 as stated: a password with no anchor at all, or with none of a
\* direction that some message token needs, never gets a grid back, the
\* empty text included.
NoAnchorFatalAnyText ==
    (pc # "encode"
     /\ (password_tokens = <<>> \/ \E i \in DOMAIN message_tokens : LacksAnchor(i)))
        => pc # "returned"

\* C2, amended: when some message token cannot get the anchor its branch
\* reads (with no anchor at all, every token of a non-empty text), the
\* loop over the message tokens raises IndexError or ValueError at the
\* first such token, and encode allocates no grid and returns none.  The
\* empty text reads no anchor, whatever the password: encode builds no
\* chunk, raises only the IndexError of the placer on a grid without rows
\* (capacity 0) or with a shorter last row, never on a capacity of 1 or
\* more that gives rows of one length, where the noise filler has a token
\* for every slot and the grid returned holds nothing but noise.
NoAnchorFatal ==
    /\ \A i \in DOMAIN message_tokens :
          (pc # "encode" /\ LacksAnchor(i))
              => /\ pc \in {"chunks", "raised"}
                 /\ Len(encoded_chunks) < i
                 /\ lines = <<>>
                 /\ pc = "raised" => error \in {"IndexError", "ValueError"}
    /\ (pc # "encode" /\ text = <<>>)
          => /\ message_tokens = <<>> /\ encoded_chunks = <<>> /\ ~needs_padding
             /\ pc = "raised"
                   => /\ error = "IndexError"
                      /\ \/ total_max_tokens = 0
                         \/ ~even_rows(line_max_tokens, total_max_tokens)
             /\ (total_max_tokens >= 1 /\ even_rows(line_max_tokens, total_max_tokens))
                   => /\ pc # "raised"
                      /\ pc = "fill" => generate_noise_token(password_tokens, message_tokens) # {}
                      /\ pc = "returned"
                            => \A rc \in Slots(lines) :
                                  lines[rc[1]][rc[2]]
                                     \in generate_noise_token(password_tokens, message_tokens)

\* C2 witness: the second token of a padded text is the reversal of the
\* only anchor, and its branch raised for want of an 'after' anchor.
NoAnchorFatalWitness ==
    /\ pc = "raised"
    /\ error = "ValueError"
    /\ Len(password_tokens) = 1
    /\ Len(encoded_chunks) = 1
    /\ LacksAnchor(2)

\* every chunk is built and the capacity is below what they and the
\* padding anchor take
CapacityShort ==
    /\ pc # "encode"
    /\ Len(encoded_chunks) = Len(message_tokens)
    /\ total_max_tokens < SumLen(encoded_chunks) + (IF needs_padding THEN 1 ELSE 0)

\* chunk i stands whole in ls, inside one row, at the position recorded for it
ChunkAt(ls, i) ==
    \E rc \in Slots(ls) :
        /\ TruePos(ls, rc) = chosen[i]
        /\ rc[2] + Len(encoded_chunks[i]) - 1 <= Len(ls[rc[1]])
        /\ \A k \in 1..Len(encoded_chunks[i]) : ls[rc[1]][rc[2] + k - 1] = encoded_chunks[i][k]

\* C3: with a capacity below the chunks' total length (plus 1 when padded)
\* encode never gets past the placer: it ends in the error that the
\* tight-fit fallback raises once the spread attempts have failed, the
\* RuntimeError; and a grid that is returned holds every chunk whole.
CapacityFatal ==
    /\ CapacityShort
          => /\ pc \in {"chunks", "pad", "place", "raised"}
             /\ pc = "raised" => error = "RuntimeError"
    /\ pc \in {"fill", "returned"}
          => /\ Len(chosen) = Len(encoded_chunks)
             /\ \A i \in DOMAIN encoded_chunks : ChunkAt(lines, i)

\* what holds of a short capacity on every grid: no grid is returned, the
\* error is the fallback's RuntimeError on a grid of rows of one length,
\* an IndexError or ValueError on a grid without rows and an IndexError or
\* RuntimeError on one with a shorter last row
CapacityNoGrid ==
    CapacityShort
        => /\ pc \in {"chunks", "pad", "place", "raised"}
           /\ (pc = "raised" /\ total_max_tokens = 0) => error \in {"IndexError", "ValueError"}
           /\ (pc = "raised" /\ total_max_tokens > 0)
                 => IF even_rows(line_max_tokens, total_max_tokens)
                    THEN error = "RuntimeError"
                    ELSE error \in {"IndexError", "RuntimeError"}

\* C5: in a grid that encode returns no slot is None, and a slot outside
\* every chunk that is not the padding anchor holds a token that is no
\* anchor, whose reversal is no anchor, and that is no message token; so
\* every anchor of the grid lies in a chunk or is the padding anchor.
FinishedGrid ==
    pc = "returned"
        => \A rc \in Slots(lines) :
              LET n == lines[rc[1]][rc[2]]
              IN  /\ n # None
                  /\ (TruePos(lines, rc) \notin ChunkPositions /\ rc # pad_slot)
                        => /\ ~IsAnchor(n)
                           /\ ~IsAnchor(Reverse(n))
                           /\ ~InSeq(n, message_tokens)
                  /\ IsAnchor(n) => (TruePos(lines, rc) \in ChunkPositions \/ rc = pad_slot)

\* C5 witness: a returned grid of two rows with a chunk, the padding anchor
\* and a noise token, drawn over the characters of the anchor.
FinishedGridWitness ==
    /\ pc = "returned"
    /\ pad_slot # <<>>
    /\ Len(encoded_chunks) = 1
    /\ Len(lines) = 2
    /\ \E rc \in Slots(lines) :
          /\ TruePos(lines, rc) \notin ChunkPositions
          /\ rc # pad_slot
          /\ lines[rc[1]][rc[2]] = <<password_tokens[1][1], password_tokens[1][1]>>

\* the neighbours a chunk is tried with: none, or any 2-character token
Neighbours == {<<>>} \cup {<<t>> : t \in [1..2 -> PwdChars]}

\* what the decoder does at the slots of chunk, placed between left and right
ChunkActs(chunk, left, right) ==
    [k \in 1..Len(chunk) |->
        scan_slot(left \o chunk \o right, Len(left) + k - 1, password_tokens)]

\* C9: whatever stands left and right of the chunk of message token m, the
\* decoder at the chunk's slots appends exactly one token, m, sets no
\* delete_last, and skips a reversed neighbour only at m in the 3-token
\* chunk of an m that is an anchor; the chunk does not start with a
\* 'before' anchor nor end with an 'after' anchor.
ChunkSelfContained ==
    pc = "chunks"
        => \A i \in DOMAIN encoded_chunks :
              LET chunk == encoded_chunks[i]
                  m == message_tokens[i]
              IN  /\ Len(chunk) \in {2, 3}
                  /\ ~(IsAnchor(chunk[1]) /\ get_direction(password, chunk[1]) = "before")
                  /\ ~(IsAnchor(chunk[Len(chunk)])
                       /\ get_direction(password, chunk[Len(chunk)]) = "after")
                  /\ \A left \in Neighbours, right \in Neighbours :
                        LET acts == ChunkActs(chunk, left, right)
                        IN  /\ \E k \in DOMAIN acts :
                                  /\ acts[k].act = "emit"
                                  /\ acts[k].tok = m
                                  /\ \A j \in DOMAIN acts : acts[j].act = "emit" => j = k
                            /\ \A k \in DOMAIN acts :
                                  /\ acts[k].act \notin {"trim", "IndexError"}
                                  /\ acts[k].act = "skip"
                                        => /\ Len(chunk) = 3
                                           /\ IsAnchor(m)
                                           /\ k = 2
                                           /\ chunk[k] = m
                                           /\ InSeq(Reverse(m), chunk)

\* C9 witness: the three branches at work in one password: a chunk of 3
\* tokens for an anchor, and the collision path of the reversed-anchor
\* branch, which puts the message token first.
ChunkSelfContainedWitness ==
    /\ pc = "chunks"
    /\ Len(encoded_chunks) = 2
    /\ Len(encoded_chunks[1]) = 3
    /\ NeedsAfter(message_tokens[2])
    /\ encoded_chunks[2][1] = message_tokens[2]

\* C10: in a grid that encode returned, scanned with the same password, the
\* slots where decode sets delete_last are the padding anchor's slot when
\* the text had odd length and none otherwise; the same holds of the
\* anchors at a row boundary on the side their direction reads; the
\* padding anchor appends nothing; the tokens appended are the message
\* tokens, so the character dropped is the padding character and the
\* result is the text.
PadTrick ==
    pc = "returned"
        => LET expected == IF Len(text) % 2 = 1 THEN {pad_slot} ELSE {}
               appended == Flatten([r \in DOMAIN lines |-> scan_line(lines[r], 0, password_tokens)])
           IN  /\ needs_padding = (Len(text) % 2 = 1)
               /\ (pad_slot # <<>>) = needs_padding
               /\ slots_doing(lines, password_tokens, "trim") = expected
               /\ BoundaryAnchors(lines) = expected
               /\ appended = message_tokens
               /\ decode(lines, password) = [err |-> "none", res |-> text]
               /\ Join(message_tokens) = text \o (IF needs_padding
                                                   THEN <<message_tokens[Len(message_tokens)][2]>>
                                                   ELSE <<>>)

\* C10 witness: the grid of an odd-length text, its 'after' padding anchor
\* in the last slot of the second row, right behind a chunk.
PadTrickWitness ==
    /\ pc = "returned"
    /\ Len(text) = 3
    /\ decode(lines, password).res = text
    /\ pad_slot = <<2, 3>>
    /\ get_direction(password, lines[2][3]) = "after"
    /\ 4 \in ChunkPositions

(***************************************************************************)
(* Properties of the placer run (SpecPlace).                               *)
(***************************************************************************)
\* C4: in a grid the placer returns every chunk stands whole in contiguous
\* slots of one row, each chunk starts after the last slot of the chunk
\* before it, no two chunks share a slot, the padding anchor is still in
\* its slot, and every other slot is still None.
PlacementLegal ==
    pc = "placed"
        => /\ Len(chosen) = Len(encoded_chunks)
           /\ \A i \in DOMAIN encoded_chunks : ChunkAt(lines, i)
           /\ \A i \in DOMAIN encoded_chunks :
                 i > 1 => chosen[i] > chosen[i - 1] + Len(encoded_chunks[i - 1]) - 1
           /\ \A i, j \in DOMAIN encoded_chunks : i # j => ChunkRange(i) \cap ChunkRange(j) = {}
           /\ pad_slot # <<>>
                 => /\ lines[pad_slot[1]][pad_slot[2]] = PadToken
                    /\ TruePos(lines, pad_slot) \notin ChunkPositions
           /\ \A rc \in Slots(lines) :
                 (TruePos(lines, rc) \notin ChunkPositions /\ rc # pad_slot)
                    => lines[rc[1]][rc[2]] = None

\* C4 witness: three chunks placed over more than one row of a grid that
\* holds a padding anchor.
PlacementLegalWitness ==
    /\ pc = "placed"
    /\ Len(encoded_chunks) = 3
    /\ pad_slot # <<>>
    /\ Len(lines) >= 2
    /\ chosen[3] >= Len(lines[1])

\* an order-preserving placement of the chunks exists: every chunk in a
\* contiguous run of None slots of one row, after the chunk before it
Feasible(ls, chunks) ==
    \E starts \in [DOMAIN chunks -> 0..(Len(Flatten(ls)) - 1)] :
        \A i \in DOMAIN chunks :
            /\ i > 1 => starts[i] >= starts[i - 1] + Len(chunks[i - 1])
            /\ \E rc \in Slots(ls) :
                  /\ TruePos(ls, rc) = starts[i]
                  /\ rc[2] + Len(chunks[i]) - 1 <= Len(ls[rc[1]])
                  /\ \A k \in 1..Len(chunks[i]) : ls[rc[1]][rc[2] + k - 1] = None

\* C8: on every grid of the allocator, a shorter last row and a padding
\* anchor included, the placer raises only when no order-preserving
\* placement of the chunks exists.
PlacerFailsOnlyWhenImpossible ==
    pc = "raised" => ~Feasible(GivenGrid, encoded_chunks)

(***************************************************************************)
(* Properties of the anchor run (SpecAnchors).                             *)
(***************************************************************************)
\* window i (1-based) of the password
Window(i) == <<password[i], password[i + 1]>>
WindowIndexes == 1..(Len(password) - 1)

\* window i occurs once, has two distinct characters, and its reversal is
\* no window
ValidWindow(i) ==
    /\ \A j \in WindowIndexes : Window(j) = Window(i) => j = i
    /\ password[i] # password[i + 1]
    /\ \A j \in WindowIndexes : Window(j) # <<password[i + 1], password[i]>>

ValidIndexes == {i \in WindowIndexes : ValidWindow(i)}

\* C6: get_password_tokens returns the valid windows, each once, in
\* password order; nothing for a password of fewer than 2 characters; the
\* direction of the anchor at an even index is 'before', at an odd index
\* 'after'; "hello" gives he, el, lo with before, after, before.
AnchorExtraction ==
    pc = "anchors_done"
        => /\ Len(password_tokens) = Cardinality(ValidIndexes)
           /\ \A i \in ValidIndexes :
                 password_tokens[Cardinality({j \in ValidIndexes : j < i}) + 1] = Window(i)
           /\ Len(password) < 2 => password_tokens = <<>>
           /\ \A k \in DOMAIN password_tokens :
                 get_direction(password, password_tokens[k])
                    = (IF (k - 1) % 2 = 0 THEN "before" ELSE "after")
           /\ password = Hello
                 => /\ password_tokens = <<<<"h", "e">>, <<"e", "l">>, <<"l", "o">>>>
                    /\ get_direction(password, <<"h", "e">>) = "before"
                    /\ get_direction(password, <<"e", "l">>) = "after"
                    /\ get_direction(password, <<"l", "o">>) = "before"

\* C6 witness: "abac", whose windows ab and ba are each other's reversal,
\* keeps the anchor ac alone.
AnchorExtractionWitness ==
    /\ pc = "anchors_done"
    /\ password = <<"a", "b", "a", "c">>
    /\ password_tokens = <<<<"a", "c">>>>

(***************************************************************************)
(* Properties of the decoder run (SpecDecode).                             *)
(***************************************************************************)
\* C7: decode of any parsed rows (empty ones, rows of different lengths, a
\* last token of 1 character, anchors at row boundaries, no anchor at all)
\* and of no rows at all raises nothing and returns a string; an anchor
\* without the neighbour its direction reads appends nothing, so rows whose
\* anchors all lack that neighbour, and rows without anchors, decode to the
\* empty string.
DecodeTotal ==
    pc = "decoded"
        => LET anchors == get_password_tokens(password)
               held == {rc \in Slots(lines) : InSeq(lines[rc[1]][rc[2]], anchors)}
           IN  /\ error = "none"
               /\ decode(<<>>, password) = [err |-> "none", res |-> <<>>]
               /\ decoded \in Seq(PwdChars)
               /\ held = {} => decoded = <<>>
               /\ held = BoundaryAnchorsOf(lines, password) => decoded = <<>>
               /\ \A rc \in BoundaryAnchorsOf(lines, password) :
                     scan_slot(lines[rc[1]], rc[2] - 1, anchors).act = "trim"

\* C7 witness: rows of different lengths decoded; an 'after' anchor in the
\* last slot of the first row set delete_last, the same anchor in the
\* second row appended the last token of 1 character, and the result is
\* the empty string.
DecodeTotalWitness ==
    /\ pc = "decoded"
    /\ Len(lines) = 2
    /\ Len(lines[1]) = 1
    /\ Len(lines[2]) = 2
    /\ InSeq(lines[1][1], get_password_tokens(password))
    /\ get_direction(password, lines[1][1]) = "after"
    /\ lines[2][1] = lines[1][1]
    /\ Len(lines[2][2]) = 1
    /\ decoded = <<>>

====
